---- MODULE Spec2Model ----
(***************************************************************************)
(* Weekly routines, weekly study plans and plan regeneration of the        *)
(* mirror-backend service (app/api/routines.py, app/api/my.py,             *)
(* app/schemas.py, app/services/weekly_plan_service.py, app/models.py).    *)
(*                                                                         *)
(* The database (tables weekly_routines, daily_plans, tasks) is persistent *)
(* state that outlives the process: the rows present when a request        *)
(* arrives were written by earlier requests and by the task-completion     *)
(* endpoints that live outside this repository slice.  Init therefore      *)
(* starts from a populated database, and a behaviour serves one request.   *)
(*                                                                         *)
(* Strings "HH:MM" are sequences of character codes that keep the ASCII    *)
(* order: a digit d is d, the colon is 10 (':' sorts after '9').           *)
(* Calendar dates are day numbers; day 0 is a Monday, so                   *)
(* date.weekday() = date % 7.                                              *)
(***************************************************************************)
EXTENDS Integers, Sequences, FiniteSets, TLC

(***************************************************************************)
(* Bounds of the model.                                                    *)
(***************************************************************************)
\* longest list of blocks one request carries
MaxBlocks == 2

\* longest weekly_plan list handed to calculate_weekly_summary on its own
MaxDays == 3

(***************************************************************************)
(* Small helpers.                                                          *)
(***************************************************************************)
Range(s) == {s[i] : i \in DOMAIN s}

SeqsUpTo(S, n) == UNION {[1..k -> S] : k \in 0..n}

Min(S) == CHOOSE x \in S : \A y \in S : x <= y

RECURSIVE SumOver(_, _)
\* sum(f(x) for x in S) over the rows of a finite set, f given as a function
SumOver(S, f) ==
    IF S = {} THEN 0
    ELSE LET x == CHOOSE y \in S : TRUE IN f[x] + SumOver(S \ {x}, f)

(***************************************************************************)
(* Python str comparison (lexicographic by code point).                    *)
(***************************************************************************)
StrLT(s, t) ==
    \E k \in 1..(Len(t)) :
        /\ \A i \in 1..(k - 1) : i <= Len(s) /\ s[i] = t[i]
        /\ \/ k = Len(s) + 1
           \/ k <= Len(s) /\ s[k] < t[k]

\* faulty variant: "<" where the code compares with "<="
StrLE_Strict(s, t) == StrLT(s, t)

StrLE(s, t) == s = t \/ StrLT(s, t)

(***************************************************************************)
(* schemas.py: DayOfWeek, RoutineBlockRequest.                             *)
(***************************************************************************)
DayOfWeek == {"MON", "TUE", "WED", "THU", "FRI", "SAT", "SUN"}

Colon == 10

\* pattern=r"^([0-1][0-9]|2[0-3]):[0-5][0-9]$"
TimePattern(v) ==
    /\ Len(v) = 5
    /\ v[3] = Colon
    /\ \/ v[1] \in 0..1 /\ v[2] \in 0..9
       \/ v[1] = 2 /\ v[2] \in 0..3
    /\ v[4] \in 0..5
    /\ v[5] \in 0..9

\* datetime.strptime(v, "%H:%M") succeeds: one or two hour digits, a colon,
\* one or two minute digits, hour < 24, minute < 60
StrptimeOK(v) ==
    \E h \in 1..2, m \in 1..2 :
        /\ Len(v) = h + 1 + m
        /\ v[h + 1] = Colon
        /\ \A i \in (1..h) \cup ((h + 2)..(h + 1 + m)) : v[i] \in 0..9
        /\ (IF h = 2 THEN 10 * v[1] + v[2] ELSE v[1]) < 24
        /\ (IF m = 2 THEN 10 * v[h + 2] + v[h + 3] ELSE v[h + 2]) < 60

\* datetime.strptime(v, "%H:%M").time(), as minutes since midnight
Strptime(v) ==
    LET h == CHOOSE k \in 1..2 : k + 1 <= Len(v) /\ v[k + 1] = Colon
        m == Len(v) - h - 1
    IN  60 * (IF h = 2 THEN 10 * v[1] + v[2] ELSE v[1])
        + (IF m = 2 THEN 10 * v[h + 2] + v[h + 3] ELSE v[h + 2])

\* RoutineBlockRequest.validate_time_format
validate_time_format(v) == StrptimeOK(v)

\* RoutineBlockRequest.validate_total_minutes (and Field(gt=0))
validate_total_minutes(v) == v > 0

\* pydantic accepts the block: field constraints, then the field validators
RoutineBlockRequest(b) ==
    /\ b.day_of_week \in DayOfWeek
    /\ TimePattern(b.start_time) /\ validate_time_format(b.start_time)
    /\ TimePattern(b.end_time) /\ validate_time_format(b.end_time)
    /\ validate_total_minutes(b.total_minutes)

(***************************************************************************)
(* Inputs the environment may submit.                                      *)
(***************************************************************************)
T0900 == <<0, 9, Colon, 0, 0>>
T0930 == <<0, 9, Colon, 3, 0>>
T1000 == <<1, 0, Colon, 0, 0>>
T1030 == <<1, 0, Colon, 3, 0>>
\* "9:00": parsed by strptime, refused by the pattern
T900 == <<9, Colon, 0, 0>>

InputDays == {"MON", "TUE"}
InputTimes == {T0900, T0930, T1000}

Block(d, s, e, m) ==
    [day_of_week |-> d, start_time |-> s, end_time |-> e, total_minutes |-> m]

\* request bodies before pydantic validation
RawBlocks ==
    {Block(d, s, e, 60) : d \in InputDays, s \in InputTimes, e \in InputTimes}
        \cup {Block("TUE", T0930, T1030, 60),
              Block("MON", T900, T1000, 60),
              Block("TUE", T0900, T1000, 0)}

RawRoutineLists == SeqsUpTo(RawBlocks, MaxBlocks)

\* authenticated users: u1 and u2 own a student profile, u3 owns none
Users == {"u1", "u3"}

\* RoutineUpdateRequest.user_id: the caller's own id or another user's
BodyUsers == {"u1", "u2"}

(***************************************************************************)
(* models.py: rows of student_profiles, weekly_routines, daily_plans,      *)
(* tasks.                                                                  *)
(***************************************************************************)
StudentProfile == {[id |-> "p1", user_id |-> "u1"], [id |-> "p2", user_id |-> "u2"]}

WeeklyRoutine(id, student, b) ==
    [id |-> id, student_id |-> student, day_of_week |-> b.day_of_week,
     start_time |-> Strptime(b.start_time), end_time |-> Strptime(b.end_time),
     total_minutes |-> b.total_minutes]

DailyPlan(id, student, d, title, target, done) ==
    [id |-> id, student_id |-> student, plan_date |-> d, title |-> title,
     target_minutes |-> target, is_completed |-> done]

Task(id, plan, category, title, minutes, seq) ==
    [id |-> id, plan_id |-> plan, category |-> category, title |-> title,
     assigned_minutes |-> minutes, sequence |-> seq]

\* date.today() (routines.py:229); day 1 is a Tuesday
Today == 1

\* dates that carry a DailyPlan of student p1 when the request arrives:
\* a past Monday, today (Tuesday), next Monday
PlanDates == {0, 1, 7}

PlanIdOf(d) == 100 + d

InitRoutines ==
    {WeeklyRoutine(1, "p1", Block("MON", T0900, T1000, 60)),
     WeeklyRoutine(2, "p1", Block("TUE", T0900, T1000, 60)),
     WeeklyRoutine(3, "p2", Block("MON", T0900, T1000, 60))}

InitPlans(done) ==
    {DailyPlan(PlanIdOf(d), "p1", d, "old focus", 60, d \in done) : d \in PlanDates}
        \cup {DailyPlan(200, "p2", 7, "old focus", 60, FALSE)}

InitTasks ==
    UNION {{Task(10 + 2 * d, PlanIdOf(d), "math", "old a", 40, 1),
            Task(11 + 2 * d, PlanIdOf(d), "english", "old b", 20, 2)} : d \in PlanDates}
        \cup {Task(4, 200, "math", "old a", 40, 1)}

VARIABLES
    db,               \* committed rows: [weekly_routines, daily_plans, tasks]
    sess,             \* rows as the request's open transaction sees them
    pc,               \* position of the request handler
    request,          \* [op, user, routines, ...] of the request being served
    ids,              \* next fresh row id (uuid4)
    locals,           \* locals of update_student_routines
    response,         \* BaseResponse returned to the caller
    proposer_calls,   \* history: proposer invocations of this request
    pre,              \* history: committed rows when the request arrived
    earlier,          \* history: the update request served before this one
    blocked           \* a second update request whose DELETE waits for a lock

vars ==
    <<db, sess, pc, request, ids, locals, response, proposer_calls, pre,
      earlier, blocked>>

NoEarlier ==
    [served |-> FALSE, success |-> FALSE, request |-> [op |-> ""],
     report |-> <<>>, calls |-> <<>>]

NoBlocked == [waiting |-> FALSE, routines |-> <<>>, targets |-> {}]

NoLocals ==
    [profile |-> "", deleted_count |-> 0, new_routine_ids |-> <<>>,
     routines_by_day |-> <<>>, future_plans |-> <<>>, i |-> 1,
     regenerated_plans |-> <<>>,
     stats |-> [regenerated |-> 0, unchanged |-> 0, failed |-> 0]]

\* Python None where a dict is expected, and the empty dict {}
EmptyDict == [k \in {} |-> 0]

NoResponse ==
    [success |-> FALSE, code |-> 0, message |-> "", detail |-> "", data |-> EmptyDict]

Init ==
    /\ \E done \in {{}} \cup {{d} : d \in PlanDates} :
           db = [weekly_routines |-> InitRoutines,
                 daily_plans |-> InitPlans(done),
                 tasks |-> InitTasks]
    /\ sess = db
    /\ pc = "idle"
    /\ request = [op |-> "", user |-> "", routines |-> <<>>]
    /\ ids = 300
    /\ locals = NoLocals
    /\ response = NoResponse
    /\ proposer_calls = <<>>
    /\ pre = db
    /\ earlier = NoEarlier
    /\ blocked = NoBlocked

(***************************************************************************)
(* routines.py 136-154: same-weekday overlap check on the "HH:MM" strings. *)
(***************************************************************************)
\* faulty variant: only a second block starting inside the first one is a conflict
Overlaps_OneSided(b1, b2) ==
    StrLT(b1.start_time, b2.start_time) /\ StrLT(b2.start_time, b1.end_time)

\* not (end1 <= start2 or end2 <= start1), compared as strings
Overlaps(b1, b2) ==
    ~(StrLE(b1.end_time, b2.start_time) \/ StrLE(b2.end_time, b1.start_time))

\* position at which a weekday enters time_blocks_by_day (dict insertion order)
FirstIndexOfDay(rs, d) == Min({i \in DOMAIN rs : rs[i].day_of_week = d})

\* the pairs (i, j), i < j, of one weekday's list that the nested loops refuse
Conflicts(rs) ==
    {p \in (DOMAIN rs) \X (DOMAIN rs) :
        /\ p[1] < p[2]
        /\ rs[p[1]].day_of_week = rs[p[2]].day_of_week
        /\ Overlaps(rs[p[1]], rs[p[2]])}

\* loop order: weekdays by first appearance, then i, then j
VisitedBefore(rs, p, q) ==
    LET dp == FirstIndexOfDay(rs, rs[p[1]].day_of_week)
        dq == FirstIndexOfDay(rs, rs[q[1]].day_of_week)
    IN  \/ dp < dq
        \/ dp = dq /\ p[1] < q[1]
        \/ dp = dq /\ p[1] = q[1] /\ p[2] <= q[2]

FirstConflict(rs) ==
    CHOOSE p \in Conflicts(rs) : \A q \in Conflicts(rs) : VisitedBefore(rs, p, q)

fail_res(code, message, detail) ==
    [success |-> FALSE, code |-> code, message |-> message, detail |-> detail,
     data |-> EmptyDict]

success_res(code, message, data) ==
    [success |-> TRUE, code |-> code, message |-> message, detail |-> "",
     data |-> data]

ProfileOf(u) == {p \in StudentProfile : p.user_id = u}

(***************************************************************************)
(* PATCH /routines, update_student_routines, lines 92-156: request         *)
(* validation, profile lookup, empty check, overlap check.                 *)
(***************************************************************************)
\* faulty variant: the profile is looked up by the user_id of the body
RequestProfile_FromBody(current_user_id, body_user_id) == ProfileOf(body_user_id)

\* lines 108-113: the profile of the authenticated user; request.user_id is
\* not read
RequestProfile(current_user_id, body_user_id) == ProfileOf(current_user_id)

\* u: the authenticated user; body_user_id and rs: the fields of the body
UpdateStart(u, body_user_id, rs) ==
    /\ pc = "idle"
    /\ UNCHANGED <<earlier, blocked>>
    /\ request' = [op |-> "PATCH", user |-> u, user_id |-> body_user_id,
                   routines |-> rs]
    /\ pre' = db
    /\ proposer_calls' = <<>>
    /\ IF \E i \in DOMAIN rs : ~RoutineBlockRequest(rs[i])
       THEN \* FastAPI answers 422 before the handler body runs
            /\ response' = fail_res(422, "validation error", "")
            /\ pc' = "done"
            /\ UNCHANGED locals
       ELSE IF RequestProfile(u, body_user_id) = {}
       THEN /\ response' = fail_res(404, "no student profile", "")
            /\ pc' = "done"
            /\ UNCHANGED locals
       ELSE IF rs = <<>>
       THEN /\ response' = fail_res(400, "empty routines", "")
            /\ pc' = "done"
            /\ UNCHANGED locals
       ELSE IF Conflicts(rs) # {}
       THEN /\ response' =
                  fail_res(400, "time overlap",
                           rs[FirstConflict(rs)[1]].day_of_week)
            /\ pc' = "done"
            /\ UNCHANGED locals
       ELSE /\ response' = NoResponse
            /\ pc' = "replace"
            /\ locals' = [NoLocals EXCEPT
                              !.profile =
                                  (CHOOSE p \in RequestProfile(u, body_user_id) : TRUE).id]
    /\ UNCHANGED <<db, sess, ids>>

(***************************************************************************)
(* Lines 158-197: delete the student's routines, insert the submitted ones *)
(* (flushed, not committed).                                               *)
(***************************************************************************)
NewRoutines(rs, student, first) ==
    [i \in DOMAIN rs |-> WeeklyRoutine(first + i - 1, student, rs[i])]

RoutinesByDay(rows) ==
    [d \in {rows[i].day_of_week : i \in DOMAIN rows} |->
        SelectSeq(rows, LAMBDA r : r.day_of_week = d)]

\* faulty variant: the previous routines are not deleted
ReplaceRoutines_KeepOld ==
    /\ pc = "replace"
    /\ UNCHANGED <<earlier, blocked>>
    /\ LET mine == {r \in sess.weekly_routines : r.student_id = locals.profile}
           rows == NewRoutines(request.routines, locals.profile, ids)
       IN  /\ sess' = [sess EXCEPT !.weekly_routines = @ \cup Range(rows)]
           /\ ids' = ids + Len(rows)
           /\ locals' = [locals EXCEPT
                  !.deleted_count = Cardinality(mine),
                  !.new_routine_ids = [i \in DOMAIN rows |-> rows[i].id],
                  !.routines_by_day = RoutinesByDay(rows)]
    /\ pc' = "load"
    /\ UNCHANGED <<db, request, response, proposer_calls, pre>>

\* faulty variant: the routine replacement is committed on its own
ReplaceRoutines_CommitEarly ==
    /\ pc = "replace"
    /\ UNCHANGED <<earlier, blocked>>
    /\ LET mine == {r \in sess.weekly_routines : r.student_id = locals.profile}
           rows == NewRoutines(request.routines, locals.profile, ids)
       IN  /\ sess' = [sess EXCEPT
                  !.weekly_routines = (@ \ mine) \cup Range(rows)]
           /\ db' = sess'
           /\ ids' = ids + Len(rows)
           /\ locals' = [locals EXCEPT
                  !.deleted_count = Cardinality(mine),
                  !.new_routine_ids = [i \in DOMAIN rows |-> rows[i].id],
                  !.routines_by_day = RoutinesByDay(rows)]
    /\ pc' = "load"
    /\ UNCHANGED <<request, response, proposer_calls, pre>>

ReplaceRoutines ==
    /\ pc = "replace"
    /\ UNCHANGED <<earlier, blocked>>
    /\ LET mine == {r \in sess.weekly_routines : r.student_id = locals.profile}
           rows == NewRoutines(request.routines, locals.profile, ids)
       IN  /\ sess' = [sess EXCEPT
                  !.weekly_routines = (@ \ mine) \cup Range(rows)]
           /\ ids' = ids + Len(rows)
           /\ locals' = [locals EXCEPT
                  !.deleted_count = Cardinality(mine),
                  !.new_routine_ids = [i \in DOMAIN rows |-> rows[i].id],
                  !.routines_by_day = RoutinesByDay(rows)]
    /\ pc' = "load"
    /\ UNCHANGED <<db, request, response, proposer_calls, pre>>

(***************************************************************************)
(* Lines 228-253: the future, incomplete plans of the student, by date.    *)
(***************************************************************************)
\* faulty variant: the query forgets the plan_date >= today filter
FuturePlans_NoDateFilter(plans, student) ==
    {p \in plans : p.student_id = student /\ p.is_completed = FALSE}

FuturePlans(plans, student) ==
    {p \in plans : p.student_id = student /\ p.plan_date >= Today
                   /\ p.is_completed = FALSE}

\* ORDER BY plan_date: every order of the rows that is ascending in the date
OrderedByDate(rows) ==
    {f \in [1..Cardinality(rows) -> rows] :
        /\ \A i, j \in DOMAIN f : i # j => f[i] # f[j]
        /\ \A i, j \in DOMAIN f : i < j => f[i].plan_date <= f[j].plan_date}

LoadFuturePlans ==
    /\ pc = "load"
    /\ UNCHANGED <<earlier, blocked>>
    /\ \E f \in OrderedByDate(FuturePlans(sess.daily_plans, locals.profile)) :
           locals' = [locals EXCEPT
               !.future_plans = [i \in DOMAIN f |-> f[i].id],
               !.i = 1,
               !.regenerated_plans = <<>>,
               !.stats = [regenerated |-> 0, unchanged |-> 0, failed |-> 0]]
    /\ pc' = "loop"
    /\ UNCHANGED <<db, sess, request, ids, response, proposer_calls, pre>>

(***************************************************************************)
(* The plan proposer (GPT-4o behind regenerate_daily_plan_for_date): it    *)
(* raises, or returns whatever JSON object the model produced.             *)
(***************************************************************************)
TaskKeys == {"category", "title", "assigned_minutes", "sequence"}

TaskData(seq, category, title, minutes) ==
    [sequence |-> seq, category |-> category, title |-> title,
     assigned_minutes |-> minutes]

ValidPlan ==
    [daily_focus |-> "new focus", total_planned_minutes |-> 50,
     tasks |-> <<TaskData(1, "math", "new a", 30), TaskData(2, "science", "new b", 20)>>]

\* a proposal without daily_focus and total_planned_minutes
BarePlan == [tasks |-> <<TaskData(1, "math", "new a", 30)>>]

DuplicateSequencePlan ==
    [daily_focus |-> "new focus", total_planned_minutes |-> 50,
     tasks |-> <<TaskData(1, "math", "new a", 30), TaskData(1, "science", "new b", 20)>>]

NonPositivePlan ==
    [daily_focus |-> "new focus", total_planned_minutes |-> 0,
     tasks |-> <<TaskData(0, "math", "new a", 0)>>]

MissingFieldPlan ==
    [daily_focus |-> "new focus", total_planned_minutes |-> 50,
     tasks |-> <<TaskData(1, "math", "new a", 30),
                 [sequence |-> 2, category |-> "science", assigned_minutes |-> 20]>>]

ProposerOutcomes ==
    {[raised |-> TRUE, json |-> EmptyDict]}
        \cup {[raised |-> FALSE, json |-> j] :
                j \in {EmptyDict, ValidPlan, BarePlan, DuplicateSequencePlan,
                       NonPositivePlan, MissingFieldPlan}}

None == [is_none |-> TRUE, json |-> EmptyDict]

\* faulty variant: "if ai_plan is not None" instead of "if ai_plan"
Truthy_IsNotNone(ai_plan) == ~ai_plan.is_none

\* Python truthiness of the value regenerate_daily_plan_for_date returns
Truthy(ai_plan) == ~ai_plan.is_none /\ DOMAIN ai_plan.json # {}

\* dict.get(key, default)
Get(d, key, default) == IF key \in DOMAIN d THEN d[key] ELSE default

RECURSIVE SumSeq(_)
SumSeq(s) == IF s = <<>> THEN 0 ELSE Head(s) + SumSeq(Tail(s))

\* weekly_plan_service.py 363-368: sum(r.total_minutes or 0 for r in day_routines)
AvailableMinutes(day_routines) ==
    SumSeq([i \in DOMAIN day_routines |-> day_routines[i].total_minutes])

\* weekly_plan_service.py 332-485; o is what the OpenAI call does when made
regenerate_daily_plan_for_date(day_routines, o) ==
    IF AvailableMinutes(day_routines) = 0 THEN None
    ELSE IF o.raised THEN None
    ELSE [is_none |-> FALSE, json |-> o.json]

(***************************************************************************)
(* Lines 246-375: one iteration of the loop over future_plans.             *)
(***************************************************************************)
day_map_num_to_code == <<"MON", "TUE", "WED", "THU", "FRI", "SAT", "SUN">>

\* day_map_num_to_code[plan.plan_date.weekday()]
DayCode(d) == day_map_num_to_code[(d % 7) + 1]

\* f"{plan.plan_date} 학습 계획"
DefaultTitle(d) == "plan of day " \o ToString(d)

PlanChanges(old_count, new_count, old_minutes, new_minutes) ==
    [old_tasks_count |-> old_count, new_tasks_count |-> new_count,
     old_minutes |-> old_minutes, new_minutes |-> new_minutes]

RegeneratedPlanItem(plan, code, affected, status, count, minutes, changes, err) ==
    [plan_id |-> plan.id, plan_date |-> plan.plan_date, day_of_week |-> code,
     affected |-> affected, status |-> status, tasks_count |-> count,
     total_minutes |-> minutes, changes |-> changes, error_message |-> err]

\* faulty variant: a failed day is appended without being counted
Recorded_FailedNotCounted(item) ==
    [locals EXCEPT !.regenerated_plans = Append(@, item),
                   !.stats[item.status] = IF item.status = "failed" THEN @ ELSE @ + 1,
                   !.i = @ + 1]

\* regenerated_plans.append(item); stats[item.status] += 1; next iteration
Recorded(item) ==
    [locals EXCEPT !.regenerated_plans = Append(@, item),
                   !.stats[item.status] = @ + 1,
                   !.i = @ + 1]

\* faulty variant: only the weekdays whose blocks differ from the stored ones
ChangedDays_OnlyModified(routines_by_day) ==
    {d \in DOMAIN routines_by_day :
        LET Times(rows) == {<<r.start_time, r.end_time, r.total_minutes>> : r \in rows}
        IN  Times(Range(routines_by_day[d]))
                # Times({r \in pre.weekly_routines :
                          r.student_id = locals.profile /\ r.day_of_week = d})}

\* the weekdays whose plans are sent to the proposer (line 243)
ChangedDays(routines_by_day) == DOMAIN routines_by_day

\* faulty variant: every future plan is regenerated
Affected_Always(code, changed_days) == TRUE

\* the plan counts as affected (line 258)
Affected(code, changed_days) == code \in changed_days

\* the rows written for a truthy proposal (lines 301-322)
NewTasks(plan_id, task_list, first) ==
    {Task(first + k - 1, plan_id, task_list[k].category, task_list[k].title,
          task_list[k].assigned_minutes, task_list[k].sequence) :
        k \in DOMAIN task_list}

\* title and target minutes taken from the proposal (lines 307-308)
UpdatedPlan(plan, json) ==
    [plan EXCEPT
        !.title = Get(json, "daily_focus", DefaultTitle(plan.plan_date)),
        !.target_minutes = Get(json, "total_planned_minutes", 0)]

\* faulty variant: the new tasks are added without deleting the old ones
SessionAfter_KeepOldTasks(s, plan, ai_plan, first) ==
    IF Truthy(ai_plan)
    THEN [s EXCEPT
             !.tasks = @ \cup NewTasks(plan.id, Get(ai_plan.json, "tasks", <<>>), first),
             !.daily_plans = (@ \ {plan}) \cup {UpdatedPlan(plan, ai_plan.json)}]
    ELSE s

\* faulty variant: the old tasks are deleted before the proposal is looked at
SessionAfter_DeleteFirst(s, plan, ai_plan, first) ==
    LET cleared == [s EXCEPT !.tasks = @ \ {t \in s.tasks : t.plan_id = plan.id}] IN
    IF Truthy(ai_plan)
    THEN [cleared EXCEPT
             !.tasks = @ \cup NewTasks(plan.id, Get(ai_plan.json, "tasks", <<>>), first),
             !.daily_plans = (@ \ {plan}) \cup {UpdatedPlan(plan, ai_plan.json)}]
    ELSE cleared

\* the session after lines 300-360 for one affected plan: a truthy proposal
\* replaces the plan's tasks and header, anything else leaves the rows alone
SessionAfter(s, plan, ai_plan, first) ==
    IF Truthy(ai_plan)
    THEN [s EXCEPT
             !.tasks = (@ \ {t \in s.tasks : t.plan_id = plan.id})
                          \cup NewTasks(plan.id, Get(ai_plan.json, "tasks", <<>>), first),
             !.daily_plans = (@ \ {plan}) \cup {UpdatedPlan(plan, ai_plan.json)}]
    ELSE s

ProcessPlan(o) ==
    /\ pc = "loop"
    /\ UNCHANGED <<earlier, blocked>>
    /\ locals.i <= Len(locals.future_plans)
    /\ LET plan == CHOOSE p \in sess.daily_plans :
                       p.id = locals.future_plans[locals.i]
           code == DayCode(plan.plan_date)
           affected == Affected(code, ChangedDays(locals.routines_by_day))
           old_tasks == {t \in sess.tasks : t.plan_id = plan.id}
           old_count == Cardinality(old_tasks)
           old_minutes == SumOver(old_tasks, [t \in old_tasks |-> t.assigned_minutes])
           day_routines == Get(locals.routines_by_day, code, <<>>)
           ai_plan == regenerate_daily_plan_for_date(day_routines, o)
           task_list == Get(ai_plan.json, "tasks", <<>>)
           new_minutes == Get(ai_plan.json, "total_planned_minutes", 0)
       IN
       IF ~affected
       THEN /\ locals' = Recorded(RegeneratedPlanItem(plan, code, FALSE, "unchanged",
                              old_count, old_minutes, EmptyDict, ""))
            /\ UNCHANGED <<sess, ids, response, pc, proposer_calls>>
       ELSE IF day_routines = <<>>
       THEN /\ locals' = Recorded(RegeneratedPlanItem(plan, code, TRUE, "failed",
                              old_count, old_minutes, EmptyDict, "no routine for this weekday"))
            /\ UNCHANGED <<sess, ids, response, pc, proposer_calls>>
       ELSE
            /\ proposer_calls' =
                  IF AvailableMinutes(day_routines) = 0 THEN proposer_calls
                  ELSE Append(proposer_calls,
                              [existing_plan_id |-> plan.id,
                               target_date |-> plan.plan_date,
                               day_routines |-> day_routines,
                               outcome |-> o])
            /\ IF ~Truthy(ai_plan)
               THEN /\ locals' = Recorded(RegeneratedPlanItem(plan, code, TRUE, "failed",
                                      old_count, old_minutes, EmptyDict, "AI plan generation failed"))
                    /\ sess' = SessionAfter(sess, plan, ai_plan, ids)
                    /\ UNCHANGED <<ids, response, pc>>
               ELSE IF \E k \in DOMAIN task_list : ~(TaskKeys \subseteq DOMAIN task_list[k])
               THEN \* KeyError in Task(...): except Exception -> rollback, fail_res
                    /\ sess' = db
                    /\ response' = fail_res(500, "routine update error", "KeyError")
                    /\ pc' = "done"
                    /\ UNCHANGED <<ids, locals>>
               ELSE /\ sess' = SessionAfter(sess, plan, ai_plan, ids)
                    /\ ids' = ids + Len(task_list)
                    /\ locals' = Recorded(RegeneratedPlanItem(plan, code, TRUE, "regenerated",
                                      Len(task_list), new_minutes,
                                      PlanChanges(old_count, Len(task_list),
                                                  old_minutes, new_minutes), ""))
                    /\ UNCHANGED <<response, pc>>
    /\ UNCHANGED <<db, request, pre>>

(***************************************************************************)
(* Lines 382-413: the single commit and the response.                      *)
(***************************************************************************)
RoutineUpdateData ==
    [updated_routine_ids |-> locals.new_routine_ids,
     deleted_count |-> locals.deleted_count,
     regenerated_plans |-> locals.regenerated_plans,
     summary |-> [total_plans |-> Len(locals.regenerated_plans),
                  regenerated |-> locals.stats.regenerated,
                  unchanged |-> locals.stats.unchanged,
                  failed |-> locals.stats.failed]]

Commit(ok) ==
    /\ pc = "loop"
    /\ UNCHANGED <<earlier, blocked>>
    /\ locals.i > Len(locals.future_plans)
    /\ IF ok
       THEN /\ db' = sess
            /\ response' = success_res(200, "routines updated", RoutineUpdateData)
            /\ UNCHANGED sess
       ELSE \* db.commit() raises: except Exception -> rollback, fail_res
            /\ sess' = db
            /\ response' = fail_res(500, "routine update error", "commit")
            /\ UNCHANGED db
    /\ pc' = "done"
    /\ UNCHANGED <<request, ids, locals, proposer_calls, pre>>

(***************************************************************************)
(* POST /routines, create_weekly_routines (lines 21-89).                   *)
(***************************************************************************)
CreateRoutines(u, rs, ok) ==
    /\ pc = "idle"
    /\ UNCHANGED <<earlier, blocked>>
    /\ request' = [op |-> "POST", user |-> u, routines |-> rs]
    /\ pre' = db
    /\ IF \E i \in DOMAIN rs : ~RoutineBlockRequest(rs[i])
       THEN /\ response' = fail_res(422, "validation error", "")
            /\ UNCHANGED <<db, sess, ids>>
       ELSE IF ProfileOf(u) = {}
       THEN /\ response' = fail_res(404, "no student profile", "")
            /\ UNCHANGED <<db, sess, ids>>
       ELSE LET student == (CHOOSE p \in ProfileOf(u) : TRUE).id
                rows == NewRoutines(rs, student, ids)
                added == [db EXCEPT !.weekly_routines = @ \cup Range(rows)]
            IN  /\ ids' = ids + Len(rows)
                /\ IF ok
                   THEN \* db.new is empty after the flush: no id is reported
                        /\ db' = added
                        /\ sess' = added
                        /\ response' = success_res(201, "routines created", EmptyDict)
                   ELSE /\ response' = fail_res(500, "routine creation error", "commit")
                        /\ UNCHANGED <<db, sess>>
    /\ pc' = "done"
    /\ UNCHANGED <<locals, proposer_calls>>

(***************************************************************************)
(* The weekly proposer (GPT-4o behind generate_weekly_plan,                *)
(* weekly_plan_service.py 11-78): it raises, or returns the JSON object    *)
(* the model produced.  Dates "YYYY-MM-DD" are day numbers.                *)
(***************************************************************************)
WeekTask(seq, category, title, minutes) ==
    [sequence |-> seq, category |-> category, title |-> title,
     assigned_minutes |-> minutes, time_slot |-> "slot", difficulty_level |-> "mid",
     learning_objective |-> "objective", instruction |-> "instruction",
     rest_after |-> 5]

DayData(focus, planned, tasks) ==
    [date |-> "date", day_of_week |-> "day", total_available_minutes |-> 60,
     total_planned_minutes |-> planned, daily_focus |-> focus, tasks |-> tasks,
     daily_summary |-> "summary", energy_distribution |-> "energy"]

StudyDay ==
    DayData("focus a", 50,
            <<WeekTask(1, "math", "a", 30), WeekTask(2, "science", "b", 20)>>)

\* the day-level total the proposer states differs from the sum of its tasks
LooseDay == DayData("focus b", 60, <<WeekTask(1, "math", "c", 40)>>)

RestDay == DayData("", 0, <<>>)

DuplicateSequenceDay ==
    DayData("focus c", 50,
            <<WeekTask(1, "math", "a", 30), WeekTask(1, "english", "b", 20)>>)

\* a day object without the "tasks" key
NoTasksDay == [daily_focus |-> "focus d", total_planned_minutes |-> 0]

WeeklySummaryData ==
    [expected_improvement |-> "better", adaptive_notes |-> "notes",
     weekly_goals |-> <<"goal">>]

Week(days) == [weekly_plan |-> days, weekly_summary |-> WeeklySummaryData]

ValidWeek == Week([i \in 1..7 |-> IF i <= 5 THEN StudyDay ELSE RestDay])

\* six days only
ShortWeek == Week([i \in 1..6 |-> StudyDay])

DuplicateSequenceWeek ==
    Week([i \in 1..7 |-> IF i = 2 THEN DuplicateSequenceDay ELSE StudyDay])

NoTasksWeek == Week([i \in 1..7 |-> IF i = 3 THEN NoTasksDay ELSE StudyDay])

\* seven good days, no "weekly_summary" object
NoSummaryWeek == [weekly_plan |-> [i \in 1..7 |-> StudyDay]]

WeeklyOutcomes ==
    {[raised |-> TRUE, json |-> EmptyDict]}
        \cup {[raised |-> FALSE, json |-> j] :
                j \in {ValidWeek, ShortWeek, DuplicateSequenceWeek, NoTasksWeek,
                       NoSummaryWeek}}

\* MissionCreateRequest.start_date: absent (request None or field None), or a date
NoDate == -1

StartDates == {NoDate, 7, 8}

(***************************************************************************)
(* weekly_plan_service.py 275-330: calculate_weekly_summary.               *)
(***************************************************************************)
RECURSIVE AllTasks(_)
\* the tasks of all days, in order (day.get('tasks', []))
AllTasks(weekly_plan) ==
    IF weekly_plan = <<>> THEN <<>>
    ELSE Get(Head(weekly_plan), "tasks", <<>>) \o AllTasks(Tail(weekly_plan))

\* list(focus_areas)[:3]: the iteration order of a Python set of str is not
\* fixed (hash randomisation), so every order of the set is possible
FocusLists(focus) ==
    LET n == IF Cardinality(focus) < 3 THEN Cardinality(focus) ELSE 3 IN
    {f \in [1..n -> focus] : \A i, j \in 1..n : i # j => f[i] # f[j]}

\* the values the call may return; {} stands for an exception (KeyError on a
\* missing key, TypeError in strptime for a start date of None)
calculate_weekly_summary(weekly_plan_data, start_date_str) ==
    LET weekly_plan == Get(weekly_plan_data, "weekly_plan", <<>>)
        tasks == AllTasks(weekly_plan)
        focus == {weekly_plan[i].daily_focus :
                     i \in {j \in DOMAIN weekly_plan :
                               /\ "daily_focus" \in DOMAIN weekly_plan[j]
                               /\ weekly_plan[j].daily_focus # ""}}
        categories == {tasks[k].category : k \in DOMAIN tasks}
    IN  IF \/ \E i \in DOMAIN weekly_plan :
                  "total_planned_minutes" \notin DOMAIN weekly_plan[i]
           \/ \E k \in DOMAIN tasks :
                  ~({"category", "assigned_minutes"} \subseteq DOMAIN tasks[k])
           \/ start_date_str = NoDate
        THEN {}
        ELSE {[total_study_minutes |->
                   SumSeq([i \in DOMAIN weekly_plan |->
                               weekly_plan[i].total_planned_minutes]),
               subject_distribution |->
                   [c \in categories |->
                       SumSeq([k \in DOMAIN SelectSeq(tasks, LAMBDA t : t.category = c) |->
                                  SelectSeq(tasks, LAMBDA t : t.category = c)[k].assigned_minutes])],
               focus_areas |-> f,
               start_date |-> start_date_str,
               end_date |-> start_date_str + 6] : f \in FocusLists(focus)}

(***************************************************************************)
(* POST /my/missions, create_weekly_missions (my.py 69-245).               *)
(***************************************************************************)
\* an exception no handler catches: FastAPI answers 500, get_db closes the
\* session and what was not committed is discarded
InternalServerError(detail) ==
    [success |-> FALSE, code |-> 500, message |-> "Internal Server Error",
     detail |-> detail, data |-> EmptyDict]

\* faulty variant: the call passes the start date as well
SummaryCall_TwoArguments(ai_response, start_date) ==
    calculate_weekly_summary(ai_response, start_date)

\* line 153, calculate_weekly_summary(ai_response): one positional argument
\* for a function of two required parameters; the call raises TypeError
\* before the body runs ({} stands for an exception)
SummaryCall(ai_response, start_date) == {}

\* the loops of lines 165-208 raise KeyError
WeekKeyError(ai_response) ==
    \/ "weekly_plan" \notin DOMAIN ai_response
    \/ \E i \in DOMAIN ai_response.weekly_plan :
           LET day == ai_response.weekly_plan[i] IN
           \/ "tasks" \notin DOMAIN day
           \/ \E k \in DOMAIN day.tasks : ~(TaskKeys \subseteq DOMAIN day.tasks[k])

\* the rows lines 165-208 add: one DailyPlan per element of weekly_plan, dated
\* start_date + index, then the tasks of each day under that plan's id
WeekRows(student, start_date, weekly_plan, first) ==
    LET n == Len(weekly_plan)
        Before(i) == Len(AllTasks(SubSeq(weekly_plan, 1, i - 1)))
    IN  [daily_plans |->
             {DailyPlan(first + i - 1, student, start_date + i - 1,
                        Get(weekly_plan[i], "daily_focus", DefaultTitle(start_date + i - 1)),
                        Get(weekly_plan[i], "total_planned_minutes", 0), FALSE) :
                 i \in 1..n},
         tasks |->
             UNION {NewTasks(first + i - 1, weekly_plan[i].tasks, first + n + Before(i)) :
                       i \in 1..n}]

\* pydantic accepts TaskDetail(**task_data) (task_id was set at line 216)
TaskDetail(t) ==
    /\ {"sequence", "category", "title", "assigned_minutes", "time_slot",
        "difficulty_level", "learning_objective", "instruction", "rest_after"}
           \subseteq DOMAIN t
    /\ t.sequence >= 1 /\ t.assigned_minutes > 0 /\ t.rest_after >= 0

\* pydantic accepts DailyPlanDetail(**day_plan)
DailyPlanDetail(day) ==
    /\ {"date", "day_of_week", "total_available_minutes", "total_planned_minutes",
        "daily_focus", "tasks", "daily_summary", "energy_distribution"}
           \subseteq DOMAIN day
    /\ \A k \in DOMAIN day.tasks : TaskDetail(day.tasks[k])

\* pydantic accepts WeeklySummaryDetail(**ai_response.get('weekly_summary', {}))
WeeklySummaryDetail(ai_response) ==
    {"expected_improvement", "adaptive_notes", "weekly_goals"}
        \subseteq DOMAIN Get(ai_response, "weekly_summary", EmptyDict)

\* lines 213-230 build the response without an exception
ResponseBuilds(ai_response) ==
    /\ ai_response.weekly_plan # <<>>
    /\ \A i \in DOMAIN ai_response.weekly_plan :
           DailyPlanDetail(ai_response.weekly_plan[i])
    /\ WeeklySummaryDetail(ai_response)

\* the id of the Task row written for task k of day i (lines 187-208): the
\* plans take the first Len(weekly_plan) ids, the tasks follow in loop order
TaskRowId(weekly_plan, first, i, k) ==
    first + Len(weekly_plan) + Len(AllTasks(SubSeq(weekly_plan, 1, i - 1))) + k - 1

\* task_id_map[task_data['sequence']] = new_task.id (line 205): one entry per
\* sequence number, overwritten by every later task with that number
task_id_map(weekly_plan, first) ==
    LET Positions == {q \in (DOMAIN weekly_plan) \X (1..Len(AllTasks(weekly_plan))) :
                         q[2] \in DOMAIN weekly_plan[q[1]].tasks}
        Sequence(q) == weekly_plan[q[1]].tasks[q[2]].sequence
        Later(q, r) == q[1] < r[1] \/ (q[1] = r[1] /\ q[2] <= r[2])
    IN  [n \in {Sequence(q) : q \in Positions} |->
            LET last == CHOOSE q \in Positions :
                            /\ Sequence(q) = n
                            /\ \A r \in Positions : Sequence(r) = n => Later(r, q)
            IN  TaskRowId(weekly_plan, first, last[1], last[2])]

\* lines 214-216: task_data['task_id'] = str(task_id_map.get(sequence, uuid4()))
WithTaskIds(weekly_plan, first) ==
    [i \in DOMAIN weekly_plan |->
        [weekly_plan[i] EXCEPT !.tasks =
            [k \in DOMAIN weekly_plan[i].tasks |->
                LET task_data == weekly_plan[i].tasks[k] IN
                [x \in DOMAIN task_data \cup {"task_id"} |->
                    IF x = "task_id"
                    THEN task_id_map(weekly_plan, first)[task_data.sequence]
                    ELSE task_data[x]]]]]

WeeklyPlanData(plan_id, student, summary_info, ai_response) ==
    [plan_id |-> plan_id, student_id |-> student,
     start_date |-> summary_info.start_date, end_date |-> summary_info.end_date,
     total_study_minutes |-> summary_info.total_study_minutes,
     subject_distribution |-> summary_info.subject_distribution,
     focus_areas |-> summary_info.focus_areas,
     weekly_plan |-> ai_response.weekly_plan,
     weekly_summary |-> ai_response.weekly_summary]

\* u: the authenticated user; sd: the requested start date; o: what the
\* OpenAI call does; io: what the database does ("ok", a failing flush, a
\* failing commit)
create_weekly_missions(u, sd, o, io) ==
    /\ pc = "idle"
    /\ UNCHANGED <<earlier, blocked>>
    /\ request' = [op |-> "MISSIONS", user |-> u, routines |-> <<>>, start_date |-> sd]
    /\ pre' = db
    /\ pc' = "done"
    /\ UNCHANGED locals
    /\ IF ProfileOf(u) = {}
       THEN /\ response' = fail_res(404, "no student profile", "")
            /\ UNCHANGED <<db, sess, ids, proposer_calls>>
       ELSE LET student == (CHOOSE p \in ProfileOf(u) : TRUE).id IN
       IF {r \in sess.weekly_routines : r.student_id = student} = {}
       THEN /\ response' = fail_res(400, "no weekly routine", "")
            /\ UNCHANGED <<db, sess, ids, proposer_calls>>
       ELSE
       /\ proposer_calls' = <<[target_date |-> sd, outcome |-> o]>>
       /\ IF o.raised
          THEN \* generate_weekly_plan raised (lines 149-150)
               /\ response' = fail_res(500, "weekly plan generation error", "")
               /\ UNCHANGED <<db, sess, ids>>
          ELSE IF SummaryCall(o.json, sd) = {}
          THEN \* line 153 is outside every try
               /\ response' = InternalServerError("TypeError")
               /\ UNCHANGED <<db, sess, ids>>
          ELSE \E summary_info \in SummaryCall(o.json, sd) :
               IF WeekKeyError(o.json) \/ io # "ok"
               THEN \* except Exception (238-245): rollback, fail_res
                    /\ response' =
                           fail_res(500, "plan save error",
                                    IF WeekKeyError(o.json) THEN "KeyError" ELSE io)
                    /\ UNCHANGED <<db, sess, ids>>
               ELSE LET rows == WeekRows(student, summary_info.start_date,
                                         o.json.weekly_plan, ids)
                        saved == [sess EXCEPT
                                     !.daily_plans = @ \cup rows.daily_plans,
                                     !.tasks = @ \cup rows.tasks]
                    IN  \* the commit of line 210 went through
                        /\ db' = saved
                        /\ sess' = saved
                        /\ ids' = ids + Cardinality(rows.daily_plans)
                                      + Cardinality(rows.tasks)
                        /\ response' =
                               IF ResponseBuilds(o.json)
                               THEN success_res(201, "weekly plan created",
                                        WeeklyPlanData(ids, student, summary_info,
                                            [o.json EXCEPT !.weekly_plan =
                                                 WithTaskIds(@, ids)]))
                               ELSE \* raised after the commit: the rollback of
                                    \* line 239 has nothing left to undo
                                    fail_res(500, "plan save error", "response")

(***************************************************************************)
(* GET /my/time-slots, get_student_time_slots (my.py 16-67): the weekly    *)
(* availability read.                                                      *)
(***************************************************************************)
day_order ==
    <<"MONDAY", "TUESDAY", "WEDNESDAY", "THURSDAY", "FRIDAY", "SATURDAY", "SUNDAY">>

day_map ==
    [MON |-> "MONDAY", TUE |-> "TUESDAY", WED |-> "WEDNESDAY", THU |-> "THURSDAY",
     FRI |-> "FRIDAY", SAT |-> "SATURDAY", SUN |-> "SUNDAY"]

\* faulty variant: the map has no entry for SUN
DayKey_NoSunday(d) == IF d = "SUN" THEN d ELSE Get(day_map, d, d)

\* day_map.get(routine.day_of_week, routine.day_of_week)
DayKey(d) == Get(day_map, d, d)

\* faulty variant: "=" where the loop accumulates with "+="
day_totals_Overwrite(routines) ==
    [day \in Range(day_order) |->
        LET counted == {r \in routines :
                           DayKey(r.day_of_week) = day /\ r.total_minutes # 0}
        IN  IF counted = {} THEN 0
            ELSE (CHOOSE r \in counted : \A q \in counted : q.id <= r.id).total_minutes]

\* lines 42-52: a routine is added to its weekday's total when the key is
\* one of day_order and total_minutes is truthy
day_totals(routines) ==
    [day \in Range(day_order) |->
        LET counted == {r \in routines :
                           DayKey(r.day_of_week) = day /\ r.total_minutes # 0}
        IN  SumOver(counted, [r \in counted |-> r.total_minutes])]

DaySchedule(day, minutes) ==
    [day_of_week |-> day, recommended_minutes |-> minutes, source_type |-> "ROUTINE"]

WeeklyScheduleData(routines) ==
    [weekly_schedule |->
        [i \in DOMAIN day_order |->
            DaySchedule(day_order[i], day_totals(routines)[day_order[i]])]]

get_student_time_slots(u) ==
    /\ pc = "idle"
    /\ UNCHANGED <<earlier, blocked>>
    /\ request' = [op |-> "GET", user |-> u, routines |-> <<>>]
    /\ pre' = db
    /\ pc' = "done"
    /\ IF ProfileOf(u) = {}
       THEN response' = fail_res(404, "no student profile", "")
       ELSE LET student == (CHOOSE p \in ProfileOf(u) : TRUE).id
                routines == {r \in sess.weekly_routines : r.student_id = student}
            IN  response' = success_res(200, "time slots", WeeklyScheduleData(routines))
    /\ UNCHANGED <<db, sess, ids, locals, proposer_calls>>

\* a request arrives: the environment picks the caller and the body
PatchRoutines ==
    /\ pc = "idle"
    /\ \E u \in Users, body_user_id \in BodyUsers, rs \in RawRoutineLists :
           UpdateStart(u, body_user_id, rs)

PostRoutines ==
    /\ pc = "idle"
    /\ \E u \in Users, rs \in RawRoutineLists, ok \in BOOLEAN : CreateRoutines(u, rs, ok)

GetTimeSlots ==
    /\ pc = "idle"
    /\ \E u \in Users \cup {"u2"} : get_student_time_slots(u)

PostMissions ==
    /\ pc = "idle"
    /\ \E u \in Users, sd \in StartDates, o \in WeeklyOutcomes,
          io \in {"ok", "flush", "commit"} : create_weekly_missions(u, sd, o, io)

Next ==
    \/ PatchRoutines
    \/ ReplaceRoutines
    \/ LoadFuturePlans
    \/ \E o \in ProposerOutcomes : ProcessPlan(o)
    \/ \E ok \in BOOLEAN : Commit(ok)
    \/ PostRoutines
    \/ PostMissions
    \/ GetTimeSlots

Spec == Init /\ [][Next]_vars

(***************************************************************************)
(* The availability read over the routine tables the write handlers can    *)
(* leave behind: any set of rows with a weekday of DayOfWeek and positive  *)
(* total_minutes (POST /routines appends whatever passes the schema).      *)
(***************************************************************************)
StoredRoutines ==
    {WeeklyRoutine(1, "p1", Block("MON", T0900, T1000, 60)),
     WeeklyRoutine(2, "p1", Block("MON", T0930, T1030, 45)),
     WeeklyRoutine(3, "p1", Block("TUE", T0900, T0930, 30)),
     WeeklyRoutine(4, "p1", Block("WED", T0900, T1000, 20)),
     WeeklyRoutine(5, "p1", Block("SAT", T1000, T1030, 30)),
     WeeklyRoutine(6, "p1", Block("SUN", T0900, T1030, 90)),
     WeeklyRoutine(7, "p1", Block("SUN", T0900, T1030, 90)),
     WeeklyRoutine(8, "p2", Block("MON", T0900, T1000, 50)),
     WeeklyRoutine(9, "p2", Block("FRI", T0900, T1000, 10))}

InitRead ==
    /\ \E rows \in SUBSET StoredRoutines :
           db = [weekly_routines |-> rows,
                 daily_plans |-> InitPlans({}),
                 tasks |-> InitTasks]
    /\ sess = db
    /\ pc = "idle"
    /\ request = [op |-> "", user |-> "", routines |-> <<>>]
    /\ ids = 300
    /\ locals = NoLocals
    /\ response = NoResponse
    /\ proposer_calls = <<>>
    /\ pre = db
    /\ earlier = NoEarlier
    /\ blocked = NoBlocked

SpecRead == InitRead /\ [][GetTimeSlots]_vars

(***************************************************************************)
(* calculate_weekly_summary on its own, applied to the objects a proposer  *)
(* may return.                                                             *)
(***************************************************************************)
\* a day object without "total_planned_minutes"
NoTotalDay == [daily_focus |-> "focus d", tasks |-> <<WeekTask(1, "math", "a", 30)>>]

SummaryDays == {StudyDay, LooseDay, RestDay, DuplicateSequenceDay, NoTotalDay}

SummaryInputs ==
    {EmptyDict} \cup {[weekly_plan |-> days] : days \in SeqsUpTo(SummaryDays, MaxDays)}

InitSummary ==
    /\ db = [weekly_routines |-> InitRoutines,
             daily_plans |-> InitPlans({}),
             tasks |-> InitTasks]
    /\ sess = db
    /\ pc = "idle"
    /\ \E w \in SummaryInputs, sd \in StartDates :
           request = [op |-> "SUMMARY", user |-> "", routines |-> <<>>,
                      weekly_plan_data |-> w, start_date |-> sd]
    /\ ids = 300
    /\ locals = NoLocals
    /\ response = NoResponse
    /\ proposer_calls = <<>>
    /\ pre = db
    /\ earlier = NoEarlier
    /\ blocked = NoBlocked

\* summary_info = calculate_weekly_summary(weekly_plan_data, start_date_str)
ApplySummary ==
    /\ pc = "idle"
    /\ UNCHANGED <<earlier, blocked>>
    /\ request.op = "SUMMARY"
    /\ LET returns == calculate_weekly_summary(request.weekly_plan_data,
                                               request.start_date)
       IN  IF returns = {}
           THEN response' = InternalServerError("exception")
           ELSE \E summary_info \in returns :
                    response' = success_res(200, "summary", summary_info)
    /\ pc' = "done"
    /\ UNCHANGED <<db, sess, request, ids, locals, proposer_calls, pre>>

SpecSummary == InitSummary /\ [][ApplySummary]_vars

(***************************************************************************)
(* The same update-routine request served twice in a row, with a proposer  *)
(* that answers the same input with the same output.  What the proposer is *)
(* asked depends on the target date and on the weekday's blocks            *)
(* (weekly_plan_service.py 363-425); existing_plan_id and the ids of the   *)
(* routine rows do not enter the prompt.                                   *)
(***************************************************************************)
CallInput(target_date, day_routines) ==
    <<target_date,
      [i \in DOMAIN day_routines |->
          <<day_routines[i].start_time, day_routines[i].end_time,
            day_routines[i].total_minutes>>]>>

\* o is what the proposer answered to the same input earlier, if it was asked
DeterministicProposer(o) ==
    /\ pc = "loop"
    /\ locals.i <= Len(locals.future_plans)
    /\ LET plan == CHOOSE p \in sess.daily_plans :
                       p.id = locals.future_plans[locals.i]
           day_routines == Get(locals.routines_by_day, DayCode(plan.plan_date), <<>>)
       IN  \A k \in DOMAIN earlier.calls :
               CallInput(earlier.calls[k].target_date, earlier.calls[k].day_routines)
                   = CallInput(plan.plan_date, day_routines)
                 => o = earlier.calls[k].outcome

\* the first request
FirstUpdate ==
    /\ ~earlier.served
    /\ PatchRoutines

\* the successful request is over: get_db closes its session, the next
\* request gets a new one
ServeAgain ==
    /\ pc = "done"
    /\ request.op = "PATCH"
    /\ response.success
    /\ ~earlier.served
    /\ earlier' = [served |-> TRUE, success |-> TRUE, request |-> request,
                   report |-> response.data.regenerated_plans,
                   calls |-> proposer_calls]
    /\ pc' = "idle"
    /\ sess' = db
    /\ locals' = NoLocals
    /\ response' = NoResponse
    /\ UNCHANGED <<db, request, ids, proposer_calls, pre, blocked>>

\* the caller sends the same body again
RepeatUpdate ==
    /\ pc = "idle"
    /\ earlier.served
    /\ UpdateStart(earlier.request.user, earlier.request.user_id,
                   earlier.request.routines)

NextTwice ==
    \/ FirstUpdate
    \/ ReplaceRoutines
    \/ LoadFuturePlans
    \/ \E o \in ProposerOutcomes : DeterministicProposer(o) /\ ProcessPlan(o)
    \/ \E ok \in BOOLEAN : Commit(ok)
    \/ ServeAgain
    \/ RepeatUpdate

SpecTwice == Init /\ [][NextTwice]_vars

(***************************************************************************)
(* Two update-routine requests of one student in flight at once.  Each     *)
(* request has its own AsyncSession and transaction (database.py 31-47),   *)
(* and every await of the handler lets the other request run.  The engine  *)
(* is PostgreSQL through asyncpg with no isolation level set               *)
(* (database.py 14-29), that is READ COMMITTED: a DELETE finds the rows    *)
(* committed when the statement starts, waits for a row another            *)
(* transaction has deleted without committing, and after that transaction  *)
(* commits skips the rows it deleted; rows the other transaction inserted  *)
(* are not among those the statement found.  The request that deletes      *)
(* first holds the locks until it commits or rolls back.                   *)
(***************************************************************************)
\* bodies that pass the schema and the overlap check
ConcurrentLists ==
    {<<Block("MON", T0900, T1000, 60)>>,
     <<Block("MON", T0930, T1000, 60)>>,
     <<Block("TUE", T0900, T0930, 60), Block("MON", T0900, T0930, 60)>>}

\* faulty variant: the waiting DELETE evaluates its filter again on the rows
\* committed when the lock is released
StatementTargets_Requery(found, rows_now) ==
    {r \in rows_now : \E f \in found : f.student_id = r.student_id}

\* the rows a DELETE that had to wait removes: those it found at its start
\* that still exist when the lock is released
StatementTargets(found, rows_now) == found \cap rows_now

\* the first request arrives
FirstOfTwo ==
    /\ pc = "idle"
    /\ ~earlier.served
    /\ \E rs \in ConcurrentLists : UpdateStart("u1", "u1", rs)

\* while the first request is between its DELETE and its commit, a second
\* request of the same user passes lines 107-154 and issues its DELETE
\* (lines 159-163), which finds the student's committed routines, all of
\* them locked by the first request
SecondUpdateBlocks ==
    /\ pc \in {"load", "loop"}
    /\ request.op = "PATCH"
    /\ ~earlier.served
    /\ ~blocked.waiting
    /\ \E rs \in ConcurrentLists :
           LET found == {r \in db.weekly_routines : r.student_id = locals.profile} IN
           /\ \A i \in DOMAIN rs : RoutineBlockRequest(rs[i])
           /\ rs # <<>>
           /\ Conflicts(rs) = {}
           /\ found # {}
           /\ blocked' = [waiting |-> TRUE, routines |-> rs, targets |-> found]
    /\ UNCHANGED <<db, sess, pc, request, ids, locals, response, proposer_calls,
                   pre, earlier>>

\* the waiting DELETE raises (command_timeout of database.py 27, or a
\* serialization failure on a server set to a stricter isolation level): the
\* second request fails with its transaction rolled back
BlockedDeleteFails ==
    /\ blocked.waiting
    /\ blocked' = NoBlocked
    /\ UNCHANGED <<db, sess, pc, request, ids, locals, response, proposer_calls,
                   pre, earlier>>

\* the first request is over; the second one's DELETE goes through and its
\* handler inserts its rows (lines 165-197) in its own transaction
BlockedDeleteResumes ==
    /\ pc = "done"
    /\ request.op = "PATCH"
    /\ blocked.waiting
    /\ earlier' = [served |-> TRUE, success |-> response.success,
                   request |-> request, report |-> locals.regenerated_plans,
                   calls |-> proposer_calls]
    /\ LET mine == StatementTargets(blocked.targets, db.weekly_routines)
           rows == NewRoutines(blocked.routines, locals.profile, ids)
       IN  /\ sess' = [db EXCEPT
                  !.weekly_routines = (@ \ mine) \cup Range(rows)]
           /\ ids' = ids + Len(rows)
           /\ locals' = [NoLocals EXCEPT
                  !.profile = locals.profile,
                  !.deleted_count = Cardinality(mine),
                  !.new_routine_ids = [i \in DOMAIN rows |-> rows[i].id],
                  !.routines_by_day = RoutinesByDay(rows)]
    /\ request' = [request EXCEPT !.routines = blocked.routines]
    /\ pre' = db
    /\ proposer_calls' = <<>>
    /\ response' = NoResponse
    /\ blocked' = NoBlocked
    /\ pc' = "load"
    /\ UNCHANGED db

NextConcurrent ==
    \/ FirstOfTwo
    \/ ReplaceRoutines
    \/ LoadFuturePlans
    \/ \E o \in ProposerOutcomes : ProcessPlan(o)
    \/ \E ok \in BOOLEAN : Commit(ok)
    \/ SecondUpdateBlocks
    \/ BlockedDeleteFails
    \/ BlockedDeleteResumes

SpecConcurrent == Init /\ [][NextConcurrent]_vars

(***************************************************************************)
(* Vocabulary of the properties.  It is stated on the rows and on the      *)
(* request, independently of the operators the handler is built from.      *)
(***************************************************************************)
PatchDone == pc = "done" /\ request.op = "PATCH"

UpdateSucceeded == PatchDone /\ response.success

TopLevelFailure == PatchDone /\ ~response.success /\ response.code = 500

\* the student profile the authenticated caller owns ("" when none)
Caller ==
    IF \E p \in StudentProfile : p.user_id = request.user
    THEN (CHOOSE p \in StudentProfile : p.user_id = request.user).id
    ELSE ""

TasksOf(rows, plan_id) == {t \in rows.tasks : t.plan_id = plan_id}

\* the plan row and its tasks are in `rows` exactly as they were on arrival
Untouched(rows, p) ==
    /\ p \in rows.daily_plans
    /\ TasksOf(rows, p.id) = TasksOf(pre, p.id)

SubmittedDays == {request.routines[i].day_of_week : i \in DOMAIN request.routines}

\* the caller's plans dated today or later and not completed, on arrival
FutureIncomplete ==
    {p \in pre.daily_plans :
        p.student_id = Caller /\ p.plan_date >= Today /\ ~p.is_completed}

Report == locals.regenerated_plans

StatusesOf(p) == {Report[k].status : k \in {j \in DOMAIN Report : Report[j].plan_id = p.id}}

Failed(o) == o.raised \/ DOMAIN o.json = {}

\* the proposal breaks the proposer contract of the specification
Invalid(o) ==
    /\ ~Failed(o)
    /\ "tasks" \in DOMAIN o.json
    /\ LET ts == o.json.tasks IN
       \/ \E k \in DOMAIN ts : ~(TaskKeys \subseteq DOMAIN ts[k])
       \/ \E k \in DOMAIN ts : "sequence" \in DOMAIN ts[k] /\ ts[k].sequence <= 0
       \/ \E k \in DOMAIN ts :
              "assigned_minutes" \in DOMAIN ts[k] /\ ts[k].assigned_minutes <= 0
       \/ \E k, l \in DOMAIN ts :
              /\ k # l
              /\ "sequence" \in DOMAIN ts[k] /\ "sequence" \in DOMAIN ts[l]
              /\ ts[k].sequence = ts[l].sequence

WellFormed(o) == ~Failed(o) /\ ~Invalid(o)

PlanOfCall(c) == CHOOSE p \in pre.daily_plans : p.id = c.existing_plan_id

(***************************************************************************)
(* C1.  After a successful update-routine, every future incomplete plan of *)
(* the caller whose weekday has no block in the submitted routine is       *)
(* reported 'failed', and its row and tasks are as before the call.        *)
(***************************************************************************)
C1_ZeroBlockWeekdayFailed ==
    UpdateSucceeded =>
        \A p \in FutureIncomplete :
            DayCode(p.plan_date) \notin SubmittedDays =>
                /\ StatusesOf(p) = {"failed"}
                /\ Untouched(db, p)

(***************************************************************************)
(* C2.  Update-routine never changes the title, target minutes or tasks of *)
(* a plan dated before today or of a completed plan: such a plan is, in    *)
(* the committed rows and in the open transaction, as it was on arrival.   *)
(***************************************************************************)
C2_PastAndCompletedUntouched ==
    request.op = "PATCH" =>
        \A p \in pre.daily_plans :
            (p.plan_date < Today \/ p.is_completed) =>
                Untouched(db, p) /\ Untouched(sess, p)

\* a committed update that regenerated a plan while a past plan and a
\* completed future plan of the caller sat on submitted weekdays
C2_Witness ==
    /\ UpdateSucceeded
    /\ locals.stats.regenerated >= 1
    /\ \E p \in pre.daily_plans :
           /\ p.student_id = Caller /\ p.plan_date < Today
           /\ DayCode(p.plan_date) \in SubmittedDays
    /\ \E p \in pre.daily_plans :
           /\ p.student_id = Caller /\ p.plan_date >= Today /\ p.is_completed
           /\ DayCode(p.plan_date) \in SubmittedDays

(***************************************************************************)
(* C3.  When every affected plan has been sent to the proposer, exactly    *)
(* one call failed and the others returned well-formed proposals, the      *)
(* report holds exactly one 'failed' and N-1 'regenerated' entries among   *)
(* the affected plans, nothing but the commit itself can still fail the    *)
(* call, and the regenerated plans carry the proposed tasks in the         *)
(* transaction and, once committed, in the database.                       *)
(***************************************************************************)
AffectedPlans == {p \in FutureIncomplete : DayCode(p.plan_date) \in SubmittedDays}

CallsWhere(P(_)) == {k \in DOMAIN proposer_calls : P(proposer_calls[k].outcome)}

OneFailureOthersSucceed ==
    /\ request.op = "PATCH"
    /\ Len(proposer_calls) = Cardinality(AffectedPlans)
    /\ Cardinality(CallsWhere(Failed)) = 1
    /\ CallsWhere(Failed) \cup CallsWhere(WellFormed) = DOMAIN proposer_calls

Content(ts) ==
    {[category |-> t.category, title |-> t.title,
      assigned_minutes |-> t.assigned_minutes, sequence |-> t.sequence] : t \in ts}

\* the plan's tasks in `rows` are the tasks of the proposal, one row each
HoldsProposal(rows, plan_id, json) ==
    LET ts == Get(json, "tasks", <<>>) IN
    /\ Content(TasksOf(rows, plan_id)) = Content(Range(ts))
    /\ Cardinality(TasksOf(rows, plan_id)) = Len(ts)
    /\ TasksOf(rows, plan_id) \cap pre.tasks = {}

ReportedWith(status) ==
    {k \in DOMAIN Report : Report[k].affected /\ Report[k].status = status}

C3_OneFailureDoesNotAbort ==
    OneFailureOthersSucceed =>
        /\ Cardinality(ReportedWith("failed")) = 1
        /\ Cardinality(ReportedWith("regenerated")) = Cardinality(AffectedPlans) - 1
        /\ TopLevelFailure => response.detail = "commit"
        /\ \A k \in CallsWhere(WellFormed) :
               LET c == proposer_calls[k] IN
               /\ ~TopLevelFailure => HoldsProposal(sess, c.existing_plan_id, c.outcome.json)
               /\ UpdateSucceeded => HoldsProposal(db, c.existing_plan_id, c.outcome.json)

\* a committed update of two affected plans, one proposer failure among them
C3_Witness ==
    /\ UpdateSucceeded
    /\ OneFailureOthersSucceed
    /\ Cardinality(AffectedPlans) = 2

(***************************************************************************)
(* C4.  A proposal that breaks the proposer contract (duplicate or         *)
(* non-positive sequence, non-positive minutes, missing task field) makes  *)
(* its day 'failed' and keeps the day's tasks; it never ends the call in a *)
(* top-level failure.                                                      *)
(***************************************************************************)
C4_InvalidProposalFailsOnlyItsDay ==
    request.op = "PATCH" =>
        \A k \in CallsWhere(Invalid) :
            LET p == PlanOfCall(proposer_calls[k]) IN
            /\ TopLevelFailure => response.detail = "commit"
            /\ StatusesOf(p) \subseteq {"failed"}
            /\ Untouched(sess, p)

(***************************************************************************)
(* C5.  A proposer call that raises or yields no proposal leaves the       *)
(* plan's row and tasks untouched and the day is reported 'failed'; the    *)
(* tasks of a plan differ from those on arrival only if a proposal for     *)
(* that plan has been obtained.                                            *)
(***************************************************************************)
C5_FailedProposerLeavesPlan ==
    request.op = "PATCH" =>
        /\ \A k \in CallsWhere(Failed) :
               LET p == PlanOfCall(proposer_calls[k]) IN
               /\ Untouched(sess, p) /\ Untouched(db, p)
               /\ StatusesOf(p) = {"failed"}
        /\ \A p \in pre.daily_plans :
               TasksOf(sess, p.id) # TasksOf(pre, p.id) =>
                   \E k \in DOMAIN proposer_calls :
                       /\ proposer_calls[k].existing_plan_id = p.id
                       /\ ~Failed(proposer_calls[k].outcome)

\* a committed update in which one call raised and another returned {}
C5_Witness ==
    /\ UpdateSucceeded
    /\ \E k \in DOMAIN proposer_calls : proposer_calls[k].outcome.raised
    /\ \E k \in DOMAIN proposer_calls :
           ~proposer_calls[k].outcome.raised /\ DOMAIN proposer_calls[k].outcome.json = {}

(***************************************************************************)
(* C6.  Nothing is persisted before the commit; an update-routine call     *)
(* that ends in a failure leaves the committed rows (routines, plans,      *)
(* tasks) as they were on arrival and the transaction rolled back; a call  *)
(* whose commit changed the rows reports success.                          *)
(***************************************************************************)
C6_TopLevelFailureRollsBack ==
    request.op = "PATCH" =>
        /\ pc # "done" => db = pre
        /\ (PatchDone /\ ~response.success) => (db = pre /\ sess = pre)
        /\ (PatchDone /\ db # pre) => (response.success /\ response.code = 200)

\* a top-level failure after at least one plan had been regenerated
C6_Witness ==
    /\ TopLevelFailure
    /\ locals.stats.regenerated >= 1

(***************************************************************************)
(* C7.  A submission with two overlapping blocks on one weekday is         *)
(* rejected before any persistence: the call ends unsuccessful, no row of  *)
(* any table changes, committed or in the transaction, and the proposer is *)
(* never invoked.                                                          *)
(***************************************************************************)
\* closed-open overlap on the times of day the strings denote
TimesOverlap(b1, b2) ==
    /\ b1.day_of_week = b2.day_of_week
    /\ ~(\/ Strptime(b1.end_time) <= Strptime(b2.start_time)
         \/ Strptime(b2.end_time) <= Strptime(b1.start_time))

OverlappingPairs ==
    {q \in (DOMAIN request.routines) \X (DOMAIN request.routines) :
        q[1] < q[2] /\ TimesOverlap(request.routines[q[1]], request.routines[q[2]])}

C7_OverlapRejectedBeforePersistence ==
    (request.op = "PATCH" /\ OverlappingPairs # {}) =>
        /\ pc = "done"
        /\ ~response.success
        /\ db = pre /\ sess = pre
        /\ proposer_calls = <<>>

\* the caller with a profile submitted two overlapping Monday blocks
C7_Witness ==
    /\ PatchDone /\ Caller # ""
    /\ response.message = "time overlap"
    /\ \E q \in OverlappingPairs : request.routines[q[1]].day_of_week = "MON"

(***************************************************************************)
(* C8.  For well-formed blocks (start before end) the overlap validation   *)
(* rejects the list if and only if two blocks of one weekday overlap as    *)
(* closed-open intervals, and the rejection names a weekday on which two   *)
(* blocks collide.                                                         *)
(***************************************************************************)
WellFormedBlocks ==
    \A i \in DOMAIN request.routines :
        /\ RoutineBlockRequest(request.routines[i])
        /\ Strptime(request.routines[i].start_time) < Strptime(request.routines[i].end_time)

C8_ValidatorIffNoOverlap ==
    (request.op = "PATCH" /\ Caller # "" /\ request.routines # <<>> /\ WellFormedBlocks) =>
        /\ response.message = "time overlap" <=> OverlappingPairs # {}
        /\ response.message = "time overlap" =>
               \E q \in OverlappingPairs :
                   request.routines[q[1]].day_of_week = response.detail
        /\ OverlappingPairs = {} => (pc # "done" \/ response.code \in {200, 500})

\* TUE 09:00-10:00 with TUE 09:30-10:30 is rejected naming TUE
C8_Witness ==
    /\ PatchDone
    /\ request.routines = <<Block("TUE", T0900, T1000, 60), Block("TUE", T0930, T1030, 60)>>
    /\ response.message = "time overlap" /\ response.detail = "TUE"

(***************************************************************************)
(* C9.  A submitted block whose start is not before its end is rejected by *)
(* POST /routines and by PATCH /routines before any persistence, and no    *)
(* stored routine has start >= end.                                        *)
(***************************************************************************)
C9_InvertedBlockRejected ==
    /\ (\E i \in DOMAIN request.routines :
            Strptime(request.routines[i].start_time)
                >= Strptime(request.routines[i].end_time))
          => (db = pre /\ (pc = "done" => ~response.success))
    /\ \A r \in db.weekly_routines : r.start_time < r.end_time

(***************************************************************************)
(* C10.  A future incomplete plan of the caller whose weekday carries no   *)
(* submitted block is never sent to the proposer, keeps its row and tasks, *)
(* and is reported exactly once, 'unchanged' with affected = false.        *)
(***************************************************************************)
UnaffectedPlans == FutureIncomplete \ AffectedPlans

C10_UnaffectedUnchanged ==
    request.op = "PATCH" =>
        \A p \in UnaffectedPlans :
            /\ \A k \in DOMAIN proposer_calls : proposer_calls[k].existing_plan_id # p.id
            /\ Untouched(sess, p) /\ Untouched(db, p)
            /\ \A k \in DOMAIN Report :
                   Report[k].plan_id = p.id =>
                       Report[k].status = "unchanged" /\ Report[k].affected = FALSE
            /\ UpdateSucceeded =>
                   Cardinality({k \in DOMAIN response.data.regenerated_plans :
                                   response.data.regenerated_plans[k].plan_id = p.id}) = 1

\* a committed update that regenerated one plan and left another unaffected
C10_Witness ==
    /\ UpdateSucceeded
    /\ UnaffectedPlans # {}
    /\ locals.stats.regenerated >= 1

(***************************************************************************)
(* Vocabulary of the create-weekly-plan properties.                        *)
(***************************************************************************)
MissionsDone == pc = "done" /\ request.op = "MISSIONS"

\* the rows the call committed
CommittedPlans == db.daily_plans \ pre.daily_plans

CommittedTasks == db.tasks \ pre.tasks

\* the proposal the proposer handed to the call (EmptyDict when it raised)
Proposal == proposer_calls[1].outcome.json

ProposalObtained ==
    /\ request.op = "MISSIONS"
    /\ Len(proposer_calls) = 1
    /\ ~proposer_calls[1].outcome.raised

\* exactly seven committed plans of the caller, one per date of the week
SevenDays ==
    /\ Cardinality(CommittedPlans) = 7
    /\ {p.plan_date : p \in CommittedPlans}
           = request.start_date..(request.start_date + 6)
    /\ \A p \in CommittedPlans : p.student_id = Caller

\* the committed tasks of every committed plan are numbered 1..k
SequencesDense ==
    \A p \in CommittedPlans :
        LET ts == {t \in CommittedTasks : t.plan_id = p.id} IN
        /\ {t.sequence : t \in ts} = 1..Cardinality(ts)
        /\ \A t1, t2 \in ts : t1.sequence = t2.sequence => t1 = t2

\* the committed rows are the whole week of the proposal: seven plans, each
\* with the tasks the proposal lists for its day, and no other new task
CompleteWeek ==
    /\ SevenDays
    /\ "weekly_plan" \in DOMAIN Proposal /\ Len(Proposal.weekly_plan) = 7
    /\ \A p \in CommittedPlans :
           LET day == Proposal.weekly_plan[p.plan_date - request.start_date + 1]
               ts == {t \in CommittedTasks : t.plan_id = p.id}
           IN  /\ Content(ts) = Content(Range(Get(day, "tasks", <<>>)))
               /\ Cardinality(ts) = Len(Get(day, "tasks", <<>>))
    /\ \A t \in CommittedTasks : \E p \in CommittedPlans : t.plan_id = p.id

\* seven days that satisfy the response schema, with a weekly summary
SevenGoodDays ==
    /\ ProposalObtained
    /\ "weekly_plan" \in DOMAIN Proposal /\ Len(Proposal.weekly_plan) = 7
    /\ ResponseBuilds(Proposal)

OnePlanPerDate(rows) ==
    \A p1, p2 \in rows.daily_plans :
        (p1.student_id = p2.student_id /\ p1.plan_date = p2.plan_date) => p1 = p2

RowsOverlap(r1, r2) ==
    /\ r1.student_id = r2.student_id
    /\ r1.day_of_week = r2.day_of_week
    /\ ~(r1.end_time <= r2.start_time \/ r2.end_time <= r1.start_time)

C15_StoredBlocksDisjoint ==
    \A r1, r2 \in db.weekly_routines : r1 # r2 => ~RowsOverlap(r1, r2)

(***************************************************************************)
(* C16.  Every stored routine has total_minutes equal to the minutes from  *)
(* its start to its end, and a submitted block whose total_minutes differs *)
(* from end minus start is not persisted.                                  *)
(***************************************************************************)
C16_DurationIsEndMinusStart ==
    /\ \A r \in db.weekly_routines : r.total_minutes = r.end_time - r.start_time
    /\ (\E i \in DOMAIN request.routines :
            LET b == request.routines[i] IN
            /\ RoutineBlockRequest(b)
            /\ b.total_minutes # Strptime(b.end_time) - Strptime(b.start_time))
          => (db = pre /\ (pc = "done" => ~response.success))

(***************************************************************************)
(* C17.  After a successful update-routine the caller's stored routines    *)
(* are exactly the submitted blocks, one new row per block in the order of *)
(* the reported ids, no row of before the call remains, and the reported   *)
(* deleted count is the number of the caller's rows before the call.       *)
(***************************************************************************)
RoutinesOf(rows, student) == {r \in rows.weekly_routines : r.student_id = student}

\* row r stores block b
Stores(r, b) ==
    /\ r.day_of_week = b.day_of_week
    /\ r.start_time = Strptime(b.start_time)
    /\ r.end_time = Strptime(b.end_time)
    /\ r.total_minutes = b.total_minutes

C17_RoutinesFullyReplaced ==
    UpdateSucceeded =>
        LET new_ids == response.data.updated_routine_ids
            stored == RoutinesOf(db, Caller)
        IN  /\ Len(new_ids) = Len(request.routines)
            /\ \A i, j \in DOMAIN new_ids : i # j => new_ids[i] # new_ids[j]
            /\ {r.id : r \in stored} = Range(new_ids)
            /\ Cardinality(stored) = Len(request.routines)
            /\ \A i \in DOMAIN new_ids :
                   \E r \in stored : r.id = new_ids[i] /\ Stores(r, request.routines[i])
            /\ stored \cap pre.weekly_routines = {}
            /\ \A r \in pre.weekly_routines : r.student_id # Caller => r \in db.weekly_routines
            /\ response.data.deleted_count = Cardinality(RoutinesOf(pre, Caller))

\* two stored routines were replaced by two submitted blocks
C17_Witness ==
    /\ UpdateSucceeded
    /\ Len(request.routines) = 2
    /\ Cardinality(RoutinesOf(pre, Caller)) = 2
    /\ request.routines[1] # request.routines[2]

(***************************************************************************)
(* Vocabulary of the availability properties.                              *)
(***************************************************************************)
ReadSucceeded == pc = "done" /\ request.op = "GET" /\ response.success

Schedule == response.data.weekly_schedule

LongName(d) ==
    CASE d = "MON" -> "MONDAY" [] d = "TUE" -> "TUESDAY" [] d = "WED" -> "WEDNESDAY"
      [] d = "THU" -> "THURSDAY" [] d = "FRI" -> "FRIDAY" [] d = "SAT" -> "SATURDAY"
      [] d = "SUN" -> "SUNDAY"

\* the caller's stored routines, all of them or those of one weekday
CallerRoutines == RoutinesOf(db, Caller)

CallerRoutinesOn(d) == {r \in CallerRoutines : r.day_of_week = d}

Minutes(rows) == SumOver(rows, [r \in rows |-> r.total_minutes])

(***************************************************************************)
(* C18.  A successful availability read returns seven entries, one per     *)
(* weekday, and the minutes of each entry are the sum of total_minutes of  *)
(* the caller's stored routines of that weekday (0 when there is none).    *)
(***************************************************************************)
C18_PerWeekdayTotals ==
    ReadSucceeded =>
        /\ Len(Schedule) = 7
        /\ \A d \in DayOfWeek :
               \E i \in DOMAIN Schedule :
                   /\ Schedule[i].day_of_week = LongName(d)
                   /\ Schedule[i].recommended_minutes = Minutes(CallerRoutinesOn(d))
                   /\ \A j \in DOMAIN Schedule :
                          Schedule[j].day_of_week = LongName(d) => j = i

\* two routines on Monday, none on Thursday
C18_Witness ==
    /\ ReadSucceeded
    /\ Cardinality(CallerRoutinesOn("MON")) = 2
    /\ CallerRoutinesOn("THU") = {}
    /\ \E i \in DOMAIN Schedule :
           Schedule[i].day_of_week = "MONDAY" /\ Schedule[i].recommended_minutes = 105

(***************************************************************************)
(* C19.  The seven per-weekday totals of a successful availability read    *)
(* add up to the sum of total_minutes of all stored routines of the        *)
(* caller.                                                                 *)
(***************************************************************************)
C19_TotalsAddUp ==
    ReadSucceeded =>
        SumSeq([i \in DOMAIN Schedule |-> Schedule[i].recommended_minutes])
            = Minutes(CallerRoutines)

\* seven routines over five weekdays, two of them equal up to the id
C19_Witness ==
    /\ ReadSucceeded
    /\ Cardinality(CallerRoutines) = 7
    /\ SumSeq([i \in DOMAIN Schedule |-> Schedule[i].recommended_minutes]) = 365

(***************************************************************************)
(* C20.  The total study minutes of the weekly summary are the sum of the  *)
(* assigned minutes of all tasks of all days of the proposal, hence the    *)
(* sum of the values of the per-category distribution, and the keys of the *)
(* distribution are exactly the categories of those tasks.                 *)
(***************************************************************************)
SummaryReturned == pc = "done" /\ request.op = "SUMMARY" /\ response.success

\* the days of the proposal the summary was computed from
SummarisedDays == Get(request.weekly_plan_data, "weekly_plan", <<>>)

TaskMinutesOfDay(day) ==
    LET ts == Get(day, "tasks", <<>>) IN
    SumSeq([k \in DOMAIN ts |-> ts[k].assigned_minutes])

TaskMinutes ==
    SumSeq([i \in DOMAIN SummarisedDays |-> TaskMinutesOfDay(SummarisedDays[i])])

CategoriesSeen ==
    UNION {{Get(SummarisedDays[i], "tasks", <<>>)[k].category :
               k \in DOMAIN Get(SummarisedDays[i], "tasks", <<>>)} :
              i \in DOMAIN SummarisedDays}

C20_TotalIsSumOfTasks ==
    SummaryReturned =>
        LET dist == response.data.subject_distribution IN
        /\ response.data.total_study_minutes = TaskMinutes
        /\ response.data.total_study_minutes = SumOver(DOMAIN dist, dist)
        /\ DOMAIN dist = CategoriesSeen

(***************************************************************************)
(* C21.  The focus areas of the weekly summary are the first three         *)
(* distinct non-empty day-focus labels of the proposal, in the order in    *)
(* which they first appear (all of them when there are fewer than three).  *)
(***************************************************************************)
RECURSIVE DistinctLabels(_, _)
\* the non-empty daily_focus labels of `days` not yet in `seen`, each once,
\* in order of first appearance
DistinctLabels(days, seen) ==
    IF days = <<>> THEN <<>>
    ELSE LET label == Get(Head(days), "daily_focus", "") IN
         IF label = "" \/ label \in Range(seen)
         THEN DistinctLabels(Tail(days), seen)
         ELSE <<label>> \o DistinctLabels(Tail(days), seen \o <<label>>)

FirstThreeLabels ==
    LET labels == DistinctLabels(SummarisedDays, <<>>) IN
    SubSeq(labels, 1, IF Len(labels) < 3 THEN Len(labels) ELSE 3)

C21_FocusAreasFirstThree ==
    SummaryReturned => response.data.focus_areas = FirstThreeLabels

(***************************************************************************)
(* C22.  The affected weekdays are those of the submitted blocks.  Every   *)
(* proposer call of an update-routine is for a future incomplete plan on   *)
(* such a weekday and is handed exactly the new rows of that weekday's     *)
(* submitted blocks, in order; a successful update has made one call per   *)
(* such plan and has regenerated every plan whose call returned a          *)
(* well-formed proposal, whether or not the blocks differ from the stored  *)
(* ones.                                                                   *)
(***************************************************************************)
SubmittedOn(d) == SelectSeq(request.routines, LAMBDA b : b.day_of_week = d)

\* the rows handed to the proposer are the new rows of the day's blocks
NewRowsOf(day_routines, d) ==
    /\ Len(day_routines) = Len(SubmittedOn(d))
    /\ \A i \in DOMAIN day_routines :
           /\ Stores(day_routines[i], SubmittedOn(d)[i])
           /\ day_routines[i].student_id = Caller
           /\ day_routines[i] \notin pre.weekly_routines

CallsFor(p) == {k \in DOMAIN proposer_calls : proposer_calls[k].existing_plan_id = p.id}

C22_SubmittedWeekdaysRegenerated ==
    request.op = "PATCH" =>
        /\ \A k \in DOMAIN proposer_calls :
               LET c == proposer_calls[k] IN
               /\ PlanOfCall(c) \in AffectedPlans
               /\ c.target_date = PlanOfCall(c).plan_date
               /\ NewRowsOf(c.day_routines, DayCode(c.target_date))
        /\ UpdateSucceeded =>
               \A p \in AffectedPlans :
                   /\ Cardinality(CallsFor(p)) = 1
                   /\ \A k \in CallsFor(p) :
                          WellFormed(proposer_calls[k].outcome) =>
                              /\ StatusesOf(p) = {"regenerated"}
                              /\ HoldsProposal(db, p.id, proposer_calls[k].outcome.json)

\* the submitted blocks are the stored ones, block for block
SameAsStored ==
    /\ \A i \in DOMAIN request.routines :
           \E r \in RoutinesOf(pre, Caller) : Stores(r, request.routines[i])
    /\ \A r \in RoutinesOf(pre, Caller) :
           \E i \in DOMAIN request.routines : Stores(r, request.routines[i])

\* a committed update that resubmitted the stored blocks and regenerated the
\* plans of both weekdays
C22_Witness ==
    /\ UpdateSucceeded
    /\ SameAsStored
    /\ Cardinality(AffectedPlans) = 2
    /\ \A p \in AffectedPlans : StatusesOf(p) = {"regenerated"}

(***************************************************************************)
(* C23.  After a committed update, every plan reported 'regenerated' holds *)
(* exactly the tasks of the proposal obtained for it (none of its previous *)
(* tasks remains), its title and target minutes are those the proposal     *)
(* states, and the tasks of every other plan are as they were on arrival.  *)
(***************************************************************************)
RegeneratedIds ==
    {Report[k].plan_id : k \in {j \in DOMAIN Report : Report[j].status = "regenerated"}}

C23_RegeneratedHoldsProposal ==
    UpdateSucceeded =>
        /\ \A id \in RegeneratedIds :
               \E k \in DOMAIN proposer_calls :
                   LET c == proposer_calls[k]
                       row == CHOOSE p \in db.daily_plans : p.id = id
                   IN  /\ c.existing_plan_id = id
                       /\ ~Failed(c.outcome)
                       /\ HoldsProposal(db, id, c.outcome.json)
                       /\ "daily_focus" \in DOMAIN c.outcome.json
                              => row.title = c.outcome.json.daily_focus
                       /\ "total_planned_minutes" \in DOMAIN c.outcome.json
                              => row.target_minutes = c.outcome.json.total_planned_minutes
        /\ {p.id : p \in db.daily_plans} = {p.id : p \in pre.daily_plans}
        /\ \A t \in db.tasks \ pre.tasks : t.plan_id \in RegeneratedIds
        /\ \A t \in pre.tasks \ db.tasks : t.plan_id \in RegeneratedIds

\* a committed update regenerated a plan that had tasks, while another plan of
\* the caller and a plan of another student kept theirs
C23_Witness ==
    /\ UpdateSucceeded
    /\ \E id \in RegeneratedIds : TasksOf(pre, id) # {}
    /\ \E p \in pre.daily_plans :
           p.student_id = Caller /\ p.id \notin RegeneratedIds /\ TasksOf(pre, p.id) # {}
    /\ \E p \in pre.daily_plans : p.student_id # Caller /\ TasksOf(pre, p.id) # {}

(***************************************************************************)
(* C24.  A create-weekly-plan call of a student with a profile and at      *)
(* least one stored routine, whose proposer returned a well-formed         *)
(* seven-day proposal and whose persistence met no error, ends with a      *)
(* success response that carries the summary, and has committed seven      *)
(* plans with the proposed tasks; with a start date in the request and     *)
(* without one.                                                            *)
(***************************************************************************)
\* seven days that satisfy the response schema, each day's tasks numbered
\* with distinct sequence numbers
WellFormedWeek ==
    /\ SevenGoodDays
    /\ \A i \in DOMAIN Proposal.weekly_plan :
           LET ts == Proposal.weekly_plan[i].tasks IN
           \A k, l \in DOMAIN ts : ts[k].sequence = ts[l].sequence => k = l

CreateCanSucceed ==
    /\ MissionsDone
    /\ Caller # ""
    /\ RoutinesOf(pre, Caller) # {}
    /\ WellFormedWeek
    /\ response.detail \notin {"flush", "commit"}

C24_CreateEventuallySucceeds ==
    CreateCanSucceed =>
        /\ response.success
        /\ Cardinality(CommittedPlans) = 7
        /\ request.start_date # NoDate => CompleteWeek
        /\ {"total_study_minutes", "subject_distribution", "focus_areas"}
               \subseteq DOMAIN response.data

(***************************************************************************)
(* C27.  The per-day list of a successful update report has exactly one    *)
(* entry per future incomplete plan of the caller, in ascending date       *)
(* order, every status is 'regenerated', 'unchanged' or 'failed', each     *)
(* counter is the number of entries of its status, and the three counters  *)
(* add up to total_plans, the number of those plans.                       *)
(***************************************************************************)
ReportedPlans == response.data.regenerated_plans

EntriesWith(status) == {k \in DOMAIN ReportedPlans : ReportedPlans[k].status = status}

C27_ReportCoversFuturePlans ==
    UpdateSucceeded =>
        LET summary == response.data.summary IN
        /\ Len(ReportedPlans) = Cardinality(FutureIncomplete)
        /\ \A p \in FutureIncomplete :
               \E k \in DOMAIN ReportedPlans :
                   /\ ReportedPlans[k].plan_id = p.id
                   /\ ReportedPlans[k].plan_date = p.plan_date
        /\ \A k, l \in DOMAIN ReportedPlans :
               k < l => ReportedPlans[k].plan_date <= ReportedPlans[l].plan_date
        /\ \A k \in DOMAIN ReportedPlans :
               ReportedPlans[k].status \in {"regenerated", "unchanged", "failed"}
        /\ summary.regenerated = Cardinality(EntriesWith("regenerated"))
        /\ summary.unchanged = Cardinality(EntriesWith("unchanged"))
        /\ summary.failed = Cardinality(EntriesWith("failed"))
        /\ summary.regenerated + summary.unchanged + summary.failed = summary.total_plans
        /\ summary.total_plans = Cardinality(FutureIncomplete)

\* a report of two future plans with two different statuses
C27_Witness ==
    /\ UpdateSucceeded
    /\ Cardinality(FutureIncomplete) = 2
    /\ \E k, l \in DOMAIN ReportedPlans : ReportedPlans[k].status # ReportedPlans[l].status

(***************************************************************************)
(* C30.  For every plan a successful update reports 'regenerated', the     *)
(* reported new task count is the number of tasks the plan has after the   *)
(* call and the reported new minutes are the sum of their assigned         *)
(* minutes; the reported old figures are the count and the minute sum of   *)
(* the plan's tasks before the call.                                       *)
(***************************************************************************)
AssignedMinutes(ts) == SumOver(ts, [t \in ts |-> t.assigned_minutes])

C30_ReportedFiguresMatchTasks ==
    UpdateSucceeded =>
        \A k \in EntriesWith("regenerated") :
            LET item == ReportedPlans[k]
                after == TasksOf(db, item.plan_id)
                before == TasksOf(pre, item.plan_id)
            IN  /\ item.changes.new_tasks_count = Cardinality(after)
                /\ item.changes.new_minutes = AssignedMinutes(after)
                /\ item.changes.old_tasks_count = Cardinality(before)
                /\ item.changes.old_minutes = AssignedMinutes(before)

(***************************************************************************)
(* C29.  An update-routine call never changes a row of another student:    *)
(* the routines, plans and tasks that do not belong to the authenticated   *)
(* caller are, in the committed rows and in the open transaction, those of *)
(* the arrival, whatever user_id the body carries.                         *)
(***************************************************************************)
\* the rows of `rows` that belong to students other than the caller
RowsOfOthers(rows) ==
    [weekly_routines |-> {r \in rows.weekly_routines : r.student_id # Caller},
     daily_plans |-> {p \in rows.daily_plans : p.student_id # Caller},
     tasks |-> {t \in rows.tasks :
                   \A p \in rows.daily_plans : p.id = t.plan_id => p.student_id # Caller}]

C29_OtherStudentsUntouched ==
    request.op = "PATCH" =>
        /\ RowsOfOthers(db) = RowsOfOthers(pre)
        /\ RowsOfOthers(sess) = RowsOfOthers(pre)

\* a committed update whose body names another user, who owns routines and
\* a future plan on a submitted weekday, regenerated a plan of the caller
C29_Witness ==
    /\ UpdateSucceeded
    /\ request.user_id # request.user
    /\ \E q \in StudentProfile :
           /\ q.user_id = request.user_id
           /\ RoutinesOf(pre, q.id) # {}
           /\ \E p \in pre.daily_plans :
                  /\ p.student_id = q.id /\ p.plan_date >= Today /\ ~p.is_completed
                  /\ DayCode(p.plan_date) \in SubmittedDays
                  /\ TasksOf(pre, p.id) # {}
    /\ RegeneratedIds # {}

(***************************************************************************)
(* C28.  A create-weekly-plan call that meets the conditions of success    *)
(* answers with a response in which every task carries the id of the Task  *)
(* row committed for it (same plan, same contents), and no two tasks of    *)
(* different days carry the same id.                                       *)
(***************************************************************************)
ReturnedDays == response.data.weekly_plan

\* the committed row with the id the response states for task k of day i
RowReturnedFor(i, k) ==
    {t \in CommittedTasks :
        /\ t.id = ReturnedDays[i].tasks[k].task_id
        /\ Content({t}) = Content({ReturnedDays[i].tasks[k]})
        /\ \E p \in CommittedPlans :
               p.id = t.plan_id /\ p.plan_date = request.start_date + i - 1}

TaskIdsMatchRows ==
    /\ \A i \in DOMAIN ReturnedDays :
           \A k \in DOMAIN ReturnedDays[i].tasks : RowReturnedFor(i, k) # {}
    /\ \A i, j \in DOMAIN ReturnedDays :
           i # j =>
               \A k \in DOMAIN ReturnedDays[i].tasks, l \in DOMAIN ReturnedDays[j].tasks :
                   ReturnedDays[i].tasks[k].task_id # ReturnedDays[j].tasks[l].task_id

SecondUpdateSucceeded == UpdateSucceeded /\ earlier.served

\* the plan and its tasks read the same in both row sets (row ids aside)
SamePlanContents(rows1, rows2, id) ==
    /\ \E p \in rows1.daily_plans, q \in rows2.daily_plans :
           /\ p.id = id /\ q.id = id
           /\ p.title = q.title
           /\ p.target_minutes = q.target_minutes
    /\ Content(TasksOf(rows1, id)) = Content(TasksOf(rows2, id))
    /\ Cardinality(TasksOf(rows1, id)) = Cardinality(TasksOf(rows2, id))

C25_RegenerationIdempotent ==
    SecondUpdateSucceeded =>
        /\ {p.id : p \in db.daily_plans} = {p.id : p \in pre.daily_plans}
        /\ \A p \in db.daily_plans : SamePlanContents(db, pre, p.id)
        /\ Len(ReportedPlans) = Len(earlier.report)
        /\ \A k \in DOMAIN ReportedPlans :
               /\ ReportedPlans[k].plan_id = earlier.report[k].plan_id
               /\ ReportedPlans[k].status = earlier.report[k].status

\* the second call wrote the tasks of a regenerated plan anew, and another
\* day was reported 'failed' both times
C25_Witness ==
    /\ SecondUpdateSucceeded
    /\ \E id \in RegeneratedIds :
           TasksOf(db, id) # {} /\ TasksOf(db, id) \cap TasksOf(pre, id) = {}
    /\ EntriesWith("failed") # {}

(***************************************************************************)
(* C26.  Two interleaved update-routine requests of one student are not    *)
(* serializable: when the second request issued its DELETE before the      *)
(* first committed and both commit, the student's stored routines are the  *)
(* blocks of both submissions together, which is the result of neither     *)
(* serial order, and the second request reports that it deleted nothing.   *)
(***************************************************************************)
BothCommitted == UpdateSucceeded /\ earlier.served /\ earlier.success

\* what the stored routines would be had the request with body `last` run
\* after the other one was over: its blocks, one row each
SerialResult(stored, last) ==
    /\ Cardinality(stored) = Len(last)
    /\ \A r \in stored : \E i \in DOMAIN last : Stores(r, last[i])

C26_InterleavedUpdatesMixRoutines ==
    BothCommitted =>
        LET stored == RoutinesOf(db, Caller)
            first == earlier.request.routines
            second == request.routines
        IN  /\ Cardinality(stored) = Len(first) + Len(second)
            /\ \A i \in DOMAIN first :
                   \E r \in stored \cap pre.weekly_routines : Stores(r, first[i])
            /\ \A j \in DOMAIN second :
                   \E r \in stored \ pre.weekly_routines : Stores(r, second[j])
            /\ ~SerialResult(stored, first)
            /\ ~SerialResult(stored, second)
            /\ response.data.deleted_count = 0

\* both requests committed and two stored blocks of the student, one of each
\* submission, overlap
C26_Witness ==
    /\ BothCommitted
    /\ Conflicts(earlier.request.routines) = {}
    /\ Conflicts(request.routines) = {}
    /\ \E r1 \in RoutinesOf(db, Caller) \cap pre.weekly_routines,
          r2 \in RoutinesOf(db, Caller) \ pre.weekly_routines : RowsOverlap(r1, r2)

====
